---- MODULE Spec2Model ----
(***************************************************************************)
(* graphql-io-client: the live-query synchronisation layer.                *)
(*                                                                         *)
(* Subscription (src/src/graphql-io-3-subscription.js) serialises its      *)
(* lifecycle operations on the promise chain this._.next; the client       *)
(* (src/unnamed/part_001) keeps the registry this._.subscriptions and      *)
(* reacts to notification batches and to transport "open" events.          *)
(*                                                                         *)
(* One step of the model is one JavaScript task (a caller's call, an       *)
(* event of the transport, an answer of the execution engine) together     *)
(* with all promise reactions it triggers: RunChain plays the microtask    *)
(* queue until every chain is either settled or waits for the engine.      *)
(*                                                                         *)
(* The execution engine is outside the repository: it may answer any       *)
(* round-trip that waits for it at any later task, in any order, also      *)
(* after a transport "open" event.  A refetch is answered with a result    *)
(* that carries a subscribe token, or fails; a directive is acknowledged   *)
(* with data or with errors.  Instances are created in the order of their  *)
(* numbers, by queries that have the default options of Client._graphql.   *)
(*                                                                         *)
(* Spec follows the subscriptions: a dispatch (Notify) may come at any     *)
(* time with any batch.  SpecTransport puts the transport in front of it:  *)
(* raw messages go through onNotify, which the chunking package builds     *)
(* from reset, absorb, emit and delay (every call absorbs its argument and *)
(* starts a timer of delay unless one runs; the timer calls emit, then     *)
(* reset), and the link closes and opens.  SpecSolo follows a single        *)
(* instance over more calls.  SpecProcess is Query.__processResults alone,  *)
(* on every result under every options, and SpecThen Query.then alone.      *)
(***************************************************************************)
EXTENDS Integers, Sequences, FiniteSets, TLC

(* ---------------------------- bounds ---------------------------------- *)

\* number of Subscription instances the caller may create
NumInst == 2
\* number of calls (subscribe, refetch, pause, resume, unsubscribe, dispatched
\* and forced refetches) logged over all instances
MaxOps == 4
\* number of transport "open" events
MaxOpens == 1
\* number of calls logged in the specification with the transport
MaxTransportOps == 3
\* number of calls logged when a single instance is followed; no
\* specification logs more
MaxSoloOps == 5

Inst == 1..NumInst
\* subscription ids the server hands out ("" is the id of a fresh instance)
Sids == {"s1", "s2"}
NoSid == ""
\* the empty batch of notifications: new OSet()
NoSids == {}

VARIABLES
    state,          \* this._.state of every instance
    sid,            \* this._.sid of every instance
    refetching,     \* this._.refetching of every instance
    next,           \* this._.next: the promise chains of every instance; the
                    \* last one is this._.next, the earlier ones were replaced
                    \* by reset() while their head was waiting for the engine
    subscriptions,  \* api._.subscriptions: sid -> set of registered instances
    ops,            \* per instance, the calls made on it, in issue order
    opens,          \* number of transport "open" events so far
    link,           \* the last of the transport events "open" and "close"
    pending,        \* ctx.sids of onNotify: the batch being accumulated
    timer,          \* the timer of onNotify is running
    dispatched,     \* the local sids of emit: the batch the last task
                    \* dispatched, NoBatch when the last task was no dispatch
    result,         \* the raw result handed to Query.__processResults
    opts,           \* this._.opts of the Query
    outcome         \* what __processResults made of result, NoOutcome before

vars == <<state, sid, refetching, next, subscriptions, ops, opens,
          link, pending, timer, dispatched, result, opts, outcome>>

(* ------------------------- the promise chain -------------------------- *)

\* a settled promise: Promise.resolve()
Resolved == [st |-> "resolved", q |-> <<>>]

\* one logged call; st is the fate of the promise the call returned:
\*   queued     callback registered with then(), not run yet
\*   inflight   callback ran and waits for the execution engine
\*   done       round-trip answered, inner callback ran to its end
\*   dropped    refetch callback returned early (resolves)
\*   invalid    callback threw the state error (rejects)
\*   typeerror  unsubscribe callback threw on the missing registry key
\*   poisoned   not run: the promise it was chained to was rejected
\*   coalesced  refetch() returned this._.next without chaining anything
\* ack is the answer of the engine to the round-trip ("-" as long as none),
\* stale marks a call that reset() found queued behind a waiting head, cb is
\* what this._.onResult was called with by a refetch (<<>> when not called).
NewOp(kind, force) ==
    [kind |-> kind, force |-> force, st |-> "queued", ack |-> "-", stale |-> FALSE,
     cb |-> <<>>]

World ==
    [state |-> state, sid |-> sid, refetching |-> refetching, next |-> next,
     subscriptions |-> subscriptions, ops |-> ops]

Commit(W) ==
    /\ state' = W.state
    /\ sid' = W.sid
    /\ refetching' = W.refetching
    /\ next' = W.next
    /\ subscriptions' = W.subscriptions
    /\ ops' = W.ops

\* api._.subscriptions[sid] && api._.subscriptions[sid][iid]
Stored(W, i) ==
    /\ W.sid[i] \in DOMAIN W.subscriptions
    /\ i \in W.subscriptions[W.sid[i]]

\* RefetchCheck with the state check skipped for a forced refetch
RefetchCheckForceSkipsState(W, i, force) ==
    IF force THEN "go"
    ELSE IF W.state[i] # "subscribed" /\ ~Stored(W, i) THEN "drop"
    ELSE IF W.state[i] # "subscribed" THEN "throw"
    ELSE "go"

\* RefetchCheck with the early return taken whether or not the instance is stored
RefetchCheckDropsStored(W, i, force) ==
    IF ~force /\ W.state[i] # "subscribed" THEN "drop"
    ELSE IF W.state[i] # "subscribed" THEN "throw"
    ELSE "go"

\* RefetchCheck without the throw: what does not return early sends the query
RefetchCheckNeverThrows(W, i, force) ==
    IF ~force /\ W.state[i] # "subscribed" /\ ~Stored(W, i) THEN "drop"
    ELSE "go"

\* the state checks made by the callbacks before they talk to the engine:
\* "drop" returns early, "throw" raises, "go" starts the round-trip
RefetchCheck(W, i, force) ==
    IF ~force /\ W.state[i] # "subscribed" /\ ~Stored(W, i) THEN "drop"
    ELSE IF W.state[i] # "subscribed" THEN "throw"
    ELSE "go"

\* PauseCheck that only refuses an unsubscribed instance
PauseCheckAllowsPaused(W, i) == IF W.state[i] = "unsubscribed" THEN "throw" ELSE "go"

PauseCheck(W, i) == IF W.state[i] # "subscribed" THEN "throw" ELSE "go"

ResumeCheck(W, i) == IF W.state[i] # "paused" THEN "throw" ELSE "go"

UnsubscribeCheck(W, i) == IF W.state[i] = "unsubscribed" THEN "throw" ELSE "go"

Check(W, i, op) ==
    CASE op.kind = "refetch"     -> RefetchCheck(W, i, op.force)
      [] op.kind = "pause"       -> PauseCheck(W, i)
      [] op.kind = "resume"      -> ResumeCheck(W, i)
      [] op.kind = "unsubscribe" -> UnsubscribeCheck(W, i)

\* what then(onFulfilled) does with the promise it is chained to: a rejected
\* promise skips the callback and passes the rejection on
ThenRuns(chst) == chst = "resolved"

\* the reactions of chain c of instance i: run the callbacks of the queued
\* calls one after the other until one waits for the engine
RECURSIVE RunChain(_, _, _)
RunChain(W, i, c) ==
    LET ch == W.next[i][c] IN
    IF ch.st = "busy" \/ ch.q = <<>> THEN W
    ELSE
        LET k == Head(ch.q)
            settle(st, chst) ==
                [W EXCEPT !.ops[i][k].st = st,
                          !.next[i][c] = [st |-> chst, q |-> Tail(ch.q)]]
        IN  IF ~ThenRuns(ch.st)
            THEN RunChain(settle("poisoned", "rejected"), i, c)
            ELSE CASE Check(W, i, W.ops[i][k]) = "drop" ->
                        RunChain(settle("dropped", "resolved"), i, c)
                   [] Check(W, i, W.ops[i][k]) = "throw" ->
                        RunChain(settle("invalid", "rejected"), i, c)
                   [] OTHER ->
                        [W EXCEPT !.ops[i][k].st = "inflight",
                                  !.next[i][c].st = "busy"]

\* this._.next = this._.next.then(callback)
Chain(W, i, op) ==
    LET k == Len(W.ops[i]) + 1
        c == Len(W.next[i])
    IN  [W EXCEPT !.ops[i] = Append(@, op), !.next[i][c].q = Append(@, k)]

\* reset() that cuts off the chain it replaces: what waits on it is never
\* answered
ResetForgetsChain(W, i) ==
    [W EXCEPT !.next[i][Len(W.next[i])] = Resolved]

\* reset(): this._.next = Promise.resolve(); a chain whose head waits for the
\* engine lives on with the callbacks chained to it
Reset(W, i) ==
    LET c  == Len(W.next[i])
        ch == W.next[i][c]
        waiting == {ch.q[n] : n \in (IF ch.st = "busy" THEN 2 ELSE 1)..Len(ch.q)}
    IN  IF ch.st = "busy" \/ ch.q # <<>>
        THEN [W EXCEPT !.next[i] = Append(@, Resolved),
                       !.ops[i] = [k \in DOMAIN @ |->
                            IF k \in waiting THEN [@[k] EXCEPT !.stale = TRUE] ELSE @[k]]]
        ELSE [W EXCEPT !.next[i][c] = Resolved]

\* refetch(force) whose guard against a second refetch ignores force
RefetchCoalescesForced(W, i, force) ==
    IF W.refetching[i]
    THEN [W EXCEPT !.ops[i] = Append(@, [NewOp("refetch", force) EXCEPT !.st = "coalesced"])]
    ELSE Chain([W EXCEPT !.refetching[i] = TRUE], i, NewOp("refetch", force))

\* refetch(force)
Refetch(W, i, force) ==
    IF ~force /\ W.refetching[i]
    THEN [W EXCEPT !.ops[i] = Append(@, [NewOp("refetch", force) EXCEPT !.st = "coalesced"])]
    ELSE Chain([W EXCEPT !.refetching[i] = TRUE], i, NewOp("refetch", force))

\* a chain that was replaced by reset() and has settled is garbage
Sweep(W, i) ==
    LET keep == {c \in 1..Len(W.next[i]) : c = Len(W.next[i]) \/ W.next[i][c].st = "busy"}
        RECURSIVE pick(_)
        pick(c) == IF c > Len(W.next[i]) THEN <<>>
                   ELSE IF c \in keep THEN <<W.next[i][c]>> \o pick(c + 1)
                   ELSE pick(c + 1)
    IN  [W EXCEPT !.next[i] = pick(1)]

\* the promise reactions that follow a task: every chain of every instance
\* runs until it is settled or waits for the engine
RECURSIVE RunChains(_, _, _)
RunChains(W, i, c) ==
    IF c > Len(W.next[i]) THEN Sweep(W, i)
    ELSE RunChains(RunChain(W, i, c), i, c + 1)

RECURSIVE RunInsts(_, _)
RunInsts(W, i) ==
    IF i > NumInst THEN W ELSE RunInsts(RunChains(W, i, 1), i + 1)

\* Microtasks of instances that share one chain: the reactions stop at the
\* first instance that waits for the engine
MicrotasksOfOneChain(W) ==
    LET busy(V, i) == \E c \in 1..Len(V.next[i]) : V.next[i][c].st = "busy"
        RECURSIVE run(_, _)
        run(V, i) ==
            IF i > NumInst THEN V
            ELSE LET V1 == RunChains(V, i, 1)
                 IN  IF busy(V1, i) THEN V1 ELSE run(V1, i + 1)
    IN  run(W, 1)

Microtasks(W) == RunInsts(W, 1)

\* the round-trip at the head of chain c is answered: the call settles with
\* st and the promise of the chain with chst
Answered(W, i, c, st, chst, ack) ==
    LET k == Head(W.next[i][c].q)
    IN  [W EXCEPT !.ops[i][k].st = st,
                  !.ops[i][k].ack = ack,
                  !.next[i][c] = [st |-> chst, q |-> Tail(@.q)]]

(* ------------------------------ registry ------------------------------ *)

\* Register with the assignment inside the test for the missing key
RegisterNewKeyOnly(S, s, i) ==
    IF s \in DOMAIN S
    THEN S
    ELSE [k \in DOMAIN S \cup {s} |-> IF k = s THEN {i} ELSE S[k]]

\* subscriptions[sid][iid] = this, creating subscriptions[sid] when undefined
Register(S, s, i) ==
    IF s \in DOMAIN S
    THEN [S EXCEPT ![s] = @ \cup {i}]
    ELSE [k \in DOMAIN S \cup {s} |-> IF k = s THEN {i} ELSE S[k]]

\* Unregister that deletes the entry of the sid with all its instances
UnregisterDropsKey(S, s, i) == [k \in DOMAIN S \ {s} |-> S[k]]

\* Unregister that leaves the emptied entry in the registry
UnregisterKeepsKey(S, s, i) == [S EXCEPT ![s] = @ \ {i}]

\* delete subscriptions[sid][iid], and subscriptions[sid] when it is empty
Unregister(S, s, i) ==
    IF S[s] \ {i} = {}
    THEN [k \in DOMAIN S \ {s} |-> S[k]]
    ELSE [S EXCEPT ![s] = @ \ {i}]

(* ----------------------- Query.__processResults ---------------------- *)

\* number of errors a raw result carries at most
MaxErrors == 2

\* result.data: null, or an object
Null == "null"
Data == {Null, "{ x: 1 }"}

\* an error of a result: a GraphQL error with a path, or an Error
Errors == [message : {"m1", "m2"}, path : BOOLEAN]

ErrorLists == UNION {[1..n -> Errors] : n \in 0..MaxErrors}

\* a result: hasErrors is the truth value of result.errors (a list, also the
\* empty one, is true; a missing field is not)
Results ==
    {r \in [data : Data, hasErrors : BOOLEAN, errors : ErrorLists] :
        ~r.hasErrors => r.errors = <<>>}

\* opts.dataRequire: null, or a compiled Ducky specification
NoRequire == "null"
Requires == {NoRequire, "{ x: number }", "{ y: string }"}

Options ==
    [errorsEmit : BOOLEAN, errorsPass : BOOLEAN, dataStrict : BOOLEAN,
     dataRequire : Requires]

\* the defaults of Client._graphql
DefaultOptions ==
    [errorsEmit |-> TRUE, errorsPass |-> TRUE, dataStrict |-> FALSE,
     dataRequire |-> NoRequire]

anyData(r) == r.data # Null

anyErrors(r) == r.hasErrors

\* Ducky.validate.execute(result.data, opts.dataRequire, errors)
Validate(data, require) == data = "{ x: 1 }" /\ require = "{ x: number }"

\* the error the failed validation pushes: { message: error }
ValidationError == [message |-> "mismatch", path |-> FALSE]

\* DataRequire that puts the validation error in front of the errors
DataRequirePrepends(r, o) ==
    IF o.dataRequire # NoRequire /\ ~Validate(r.data, o.dataRequire)
    THEN [r EXCEPT !.hasErrors = TRUE, !.errors = <<ValidationError>> \o @]
    ELSE r

\* optionally perform data structure validation
DataRequire(r, o) ==
    IF o.dataRequire # NoRequire /\ ~Validate(r.data, o.dataRequire)
    THEN [r EXCEPT !.hasErrors = TRUE, !.errors = @ \o <<ValidationError>>]
    ELSE r

\* the text onError makes of an error
ErrorText(err) ==
    IF err.path THEN <<"GraphQL error at path", err.message>> ELSE <<err.message>>

\* the error handler Client._graphql hands to the Query: what it emits as
\* "error" events
OnError(o, err) == IF o.errorsEmit THEN <<ErrorText(err)>> ELSE <<>>

\* this._.error(result.errors[0]) for a non-empty list of errors
EmitErrors(r, o) == IF r.errors # <<>> THEN OnError(o, r.errors[1]) ELSE <<>>

\* DataStrict run after the errors were removed: it finds errors only when
\* they are passed
DataStrictAfterErrorsPass(r, o) ==
    IF anyData(r) /\ anyErrors(r) /\ o.errorsPass /\ o.dataStrict
    THEN [r EXCEPT !.data = Null]
    ELSE r

\* optionally enforce strict data
DataStrict(r, o) ==
    IF anyData(r) /\ anyErrors(r) /\ o.dataStrict
    THEN [r EXCEPT !.data = Null]
    ELSE r

\* optionally do not pass-through errors
ErrorsPass(r, o) ==
    IF anyErrors(r) /\ ~o.errorsPass
    THEN [r EXCEPT !.hasErrors = FALSE, !.errors = <<>>]
    ELSE r

\* ProcessResults that removes the errors before it emits the first one
ProcessResultsStripsFirst(r, o) ==
    LET r1 == DataRequire(r, o)
        r2 == DataStrict(r1, o)
        r3 == ErrorsPass(r2, o)
    IN  [delivered |-> r3,
         emitted   |-> EmitErrors(r3, o),
         called    |-> anyData(r3) \/ anyErrors(r3)]

\* __processResults(result, onResult): the result it returns, the "error"
\* events it emits, and whether it calls onResult (with that result)
ProcessResults(r, o) ==
    LET r1 == DataRequire(r, o)
        r2 == DataStrict(r1, o)
        r3 == ErrorsPass(r2, o)
    IN  [delivered |-> r3,
         emitted   |-> EmitErrors(r1, o),
         called    |-> anyData(r3) \/ anyErrors(r3)]

\* what onResult was called with: nothing, or one result
Callback(out) == IF out.called THEN <<out.delivered>> ELSE <<>>

(* ----------------------------- Query.then ----------------------------- *)

\* what a call of then(onResult) meets: a query text that does not compile,
\* a round-trip that fails, or a round-trip that returns a result
Requests == {"compile error", "failure", "result"}

\* the Error of the failed compilation or of the failed round-trip
Failure == [message |-> "m1", path |-> FALSE]

\* { data: null, errors: [ error ] }
FailureResult == [data |-> Null, hasErrors |-> TRUE, errors |-> <<Failure>>]

\* then(onResult): the fate of the promise it returns, the result handed to
\* onResult, the "error" events emitted, and whether onResult is called
QueryThen(req, r, o) ==
    IF req = "compile error"
    THEN [req |-> req, promise |-> "resolved",
          delivered |-> FailureResult,
          emitted   |-> OnError(o, Failure),
          called    |-> TRUE]
    ELSE LET out == ProcessResults(IF req = "failure" THEN FailureResult ELSE r, o)
         IN  [req |-> req, promise |-> "resolved",
              delivered |-> out.delivered,
              emitted   |-> out.emitted,
              called    |-> out.called]

(* ------------------------------- state -------------------------------- *)

Created(i) == ops[i] # <<>>

TotalOps(W) ==
    LET RECURSIVE sum(_)
        sum(i) == IF i > NumInst THEN 0 ELSE Len(W.ops[i]) + sum(i + 1)
    IN  sum(1)

\* a task ends with its promise reactions; no log grows beyond MaxSoloOps
Task(W) == /\ TotalOps(W) <= MaxSoloOps
           /\ Commit(Microtasks(W))

\* the calls logged so far
LogLen == TotalOps(World)

\* the step keeps the log within MaxOps
Within == LogLen' <= MaxOps

Init ==
    /\ state = [i \in Inst |-> "subscribed"]
    /\ sid = [i \in Inst |-> NoSid]
    /\ refetching = [i \in Inst |-> FALSE]
    /\ next = [i \in Inst |-> <<Resolved>>]
    /\ subscriptions = [s \in {} |-> {}]
    /\ ops = [i \in Inst |-> <<>>]
    /\ opens = 0
    /\ link = "open"
    /\ pending = NoSids
    /\ timer = FALSE
    /\ dispatched = <<>>
    /\ result = [data |-> Null, hasErrors |-> FALSE, errors |-> <<>>]
    /\ opts = DefaultOptions
    /\ outcome = <<>>

\* a task that is no event of the transport leaves the transport and the
\* pending notifications alone
Quiet ==
    /\ dispatched' = <<>>
    /\ UNCHANGED <<link, pending, timer, result, opts, outcome>>

(* --------------------------- caller's calls --------------------------- *)

\* query.subscribe(onResult): new Subscription(...), then refetch()
Subscribe(i) ==
    /\ ~Created(i)
    /\ \A j \in Inst : j < i => Created(j)
    /\ Task(Refetch(World, i, FALSE))
    /\ UNCHANGED opens
    /\ Quiet

\* subscription.refetch()
CallRefetch(i) ==
    /\ Created(i)
    /\ Task(Refetch(World, i, FALSE))
    /\ UNCHANGED opens
    /\ Quiet

\* subscription.pause()
Pause(i) ==
    /\ Created(i)
    /\ Task(Chain(World, i, NewOp("pause", FALSE)))
    /\ UNCHANGED opens
    /\ Quiet

\* subscription.resume()
Resume(i) ==
    /\ Created(i)
    /\ Task(Chain(World, i, NewOp("resume", FALSE)))
    /\ UNCHANGED opens
    /\ Quiet

\* subscription.unsubscribe()
Unsubscribe(i) ==
    /\ Created(i)
    /\ Task(Chain(World, i, NewOp("unsubscribe", FALSE)))
    /\ UNCHANGED opens
    /\ Quiet

(* ------------------------ execution engine ---------------------------- *)

\* answers to graphqlClient.query(args): a result carrying the subscribe
\* token, or a failure
RefetchReplies == Sids \cup {"fail"}

\* the data of a result of the query Query.subscribe sends: the field
\* _Subscription { subscribe } it injected, beside the fields of the caller
Tokened == "{ _Subscription: { subscribe }, x: 1 }"

\* delete result.data._Subscription
StripToken(data) == IF data = Tokened THEN "{ x: 1 }" ELSE data

\* RefetchResult with a rejection handler that returns no result
RefetchResultWithoutError(reply) ==
    IF reply \in Sids
    THEN [data |-> StripToken(Tokened), hasErrors |-> FALSE, errors |-> <<>>]
    ELSE [data |-> Null, hasErrors |-> FALSE, errors |-> <<>>]

\* the result the refetch hands to __processResults: the data of the query
\* without the subscribe token, or the failure as the only error
RefetchResult(reply) ==
    IF reply \in Sids
    THEN [data |-> StripToken(Tokened), hasErrors |-> FALSE, errors |-> <<>>]
    ELSE [data |-> Null, hasErrors |-> TRUE,
          errors |-> <<[message |-> "m1", path |-> FALSE]>>]

\* the head of chain c is a refetch waiting for graphqlClient.query(args)
RefetchAnswer(i, c, reply) ==
    /\ c \in 1..Len(next[i])
    /\ next[i][c].st = "busy"
    /\ ops[i][Head(next[i][c].q)].kind = "refetch"
    /\ LET k  == Head(next[i][c].q)
           W1 == IF reply \in Sids
                 THEN [World EXCEPT !.sid[i] = reply,
                                    !.subscriptions = Register(@, reply, i)]
                 ELSE World
           W2 == [W1 EXCEPT !.refetching[i] = FALSE,
                            !.ops[i][k].cb =
                                Callback(ProcessResults(RefetchResult(reply), opts))]
       IN  Task(Answered(W2, i, c, "done", "resolved", IF reply \in Sids THEN "ok" ELSE "error"))
    /\ UNCHANGED opens
    /\ Quiet

\* answers to the mutation of a directive: data, or errors (sent by the
\* server, or made of the failure of the round-trip by Query.then)
DirectiveAcks == {"ok", "error"}

AnyData(ack) == ack = "ok"

AnyErrors(ack) == ack = "error"

\* Query.__processResults calls onResult when there is data or errors
Delivered(ack) == AnyData(ack) \/ AnyErrors(ack)

\* the then() callbacks of pause(), resume() and unsubscribe()
PauseDone(W, i, c, ack) ==
    Answered([W EXCEPT !.state[i] = "paused"], i, c, "done", "resolved", ack)

ResumeDone(W, i, c, ack) ==
    Answered([W EXCEPT !.state[i] = "subscribed"], i, c, "done", "resolved", ack)

UnsubscribeDone(W, i, c, ack) ==
    IF W.sid[i] \notin DOMAIN W.subscriptions
    THEN Answered(W, i, c, "typeerror", "rejected", ack)
    ELSE Answered([W EXCEPT !.subscriptions = Unregister(@, W.sid[i], i),
                            !.state[i] = "unsubscribed"], i, c, "done", "resolved", ack)

\* the head of chain c is a directive waiting for api.graphql(...).then(...)
DirectiveAnswer(i, c, ack) ==
    /\ c \in 1..Len(next[i])
    /\ next[i][c].st = "busy"
    /\ LET kind == ops[i][Head(next[i][c].q)].kind IN
       /\ kind # "refetch"
       /\ IF ~Delivered(ack)
          THEN Task(Answered(World, i, c, "done", "resolved", ack))
          ELSE CASE kind = "pause"       -> Task(PauseDone(World, i, c, ack))
                 [] kind = "resume"      -> Task(ResumeDone(World, i, c, ack))
                 [] kind = "unsubscribe" -> Task(UnsubscribeDone(World, i, c, ack))
    /\ UNCHANGED opens
    /\ Quiet

(* ----------------------------- transport ------------------------------ *)

\* Entries that takes every key of the registry, as the "open" handler does
EntriesOfEveryKey(S, keys) ==
    {p \in Sids \X Inst : p[1] \in DOMAIN S /\ p[2] \in S[p[1]]}

\* the (sid, iid) pairs of the registry under the given keys
Entries(S, keys) ==
    {p \in Sids \X Inst : p[1] \in keys /\ p[1] \in DOMAIN S /\ p[2] \in S[p[1]]}

\* the emit step of onNotify: refetch() on every instance under every sid
RECURSIVE NotifyAll(_, _)
NotifyAll(W, P) ==
    IF P = {} THEN W
    ELSE LET p == CHOOSE x \in P : TRUE
         IN  NotifyAll(Refetch(W, p[2], FALSE), P \ {p})

Notify(batch) ==
    /\ batch # {}
    /\ Task(NotifyAll(World, Entries(subscriptions, batch)))
    /\ UNCHANGED opens
    /\ Quiet

\* the "open" handler: reset() and refetch(true) on every registered instance
RECURSIVE ReopenAll(_, _)
ReopenAll(W, P) ==
    IF P = {} THEN W
    ELSE LET p == CHOOSE x \in P : TRUE
         IN  ReopenAll(Refetch(Reset(W, p[2]), p[2], TRUE), P \ {p})

Open ==
    /\ opens < MaxOpens
    /\ opens' = opens + 1
    /\ link' = "open"
    /\ Task(ReopenAll(World, Entries(subscriptions, DOMAIN subscriptions)))
    /\ dispatched' = <<>>
    /\ UNCHANGED <<pending, timer, result, opts, outcome>>

\* a "close" handler that does what the "open" handler does
CloseRefetches ==
    /\ link' = "closed"
    /\ Task(ReopenAll(World, Entries(subscriptions, DOMAIN subscriptions)))
    /\ dispatched' = <<>>
    /\ UNCHANGED <<opens, pending, timer, result, opts, outcome>>

\* the "close" handler: this.emit("close")
Close ==
    /\ link' = "closed"
    /\ dispatched' = <<>>
    /\ UNCHANGED <<state, sid, refetching, next, subscriptions, ops, opens,
                   pending, timer, result, opts, outcome>>

(* --------------------------- notifications ---------------------------- *)

\* an element of a payload that is no string (a number)
NotString == "42"

\* the "receive" events of the transport: notifications (a list of sids,
\* be it empty or with a sid twice), notifications whose payload is no list
\* (list is false) or a list with an element that is no string, and other
\* frames
Messages ==
    {[type |-> "GRAPHQL-NOTIFY", list |-> TRUE, data |-> d] :
        d \in {<<>>, <<"s1">>, <<"s2">>, <<"s1", "s1">>, <<"s1", "s2">>,
               <<"s1", NotString>>}}
    \cup {[type |-> "GRAPHQL-NOTIFY", list |-> FALSE, data |-> <<>>],
          [type |-> "GRAPHQL-RESPONSE", list |-> TRUE, data |-> <<"s1">>]}

\* a validation that looks at the payload only when it is no list
StringListOrAnyList(msg) == msg.list

\* Ducky.validate(data, "[ string* ]")
StringList(msg) ==
    /\ msg.list
    /\ \A n \in DOMAIN msg.data : msg.data[n] # NotString

\* absorb that starts a new set with every message
AbsorbReplaces(ctx, sids) == {sids[n] : n \in DOMAIN sids}

\* absorb: sids.forEach((sid) => ctx.sids.add(sid))
Absorb(ctx, sids) == ctx \cup {sids[n] : n \in DOMAIN sids}

\* the "receive" handler: onNotify(data) absorbs the message and starts the
\* timer unless it runs
Receive(msg) ==
    /\ IF msg.type = "GRAPHQL-NOTIFY" /\ StringList(msg)
       THEN /\ pending' = Absorb(pending, msg.data)
            /\ timer' = TRUE
       ELSE UNCHANGED <<pending, timer>>
    /\ dispatched' = <<>>
    /\ UNCHANGED <<state, sid, refetching, next, subscriptions, ops, opens,
                   link, result, opts, outcome>>

\* the timer of onNotify fires after this.$.throttle: emit, then reset
Fire ==
    /\ timer
    /\ Task(NotifyAll(World, Entries(subscriptions, pending)))
    /\ dispatched' = <<pending>>
    /\ pending' = NoSids
    /\ timer' = FALSE
    /\ UNCHANGED <<opens, link, result, opts, outcome>>

\* the tasks of the caller and of the transport, and the acknowledgements
Calls ==
    \/ \E i \in Inst : Subscribe(i) /\ Within
    \/ \E i \in Inst : CallRefetch(i) /\ Within
    \/ \E i \in Inst : Pause(i) /\ Within
    \/ \E i \in Inst : Resume(i) /\ Within
    \/ \E i \in Inst : Unsubscribe(i) /\ Within
    \/ \E i \in Inst, c \in 1..MaxOps, a \in DirectiveAcks : DirectiveAnswer(i, c, a)
    \/ \E b \in SUBSET Sids : Notify(b) /\ Within
    \/ Open /\ Within

Next ==
    \/ Calls
    \/ \E i \in Inst, c \in 1..MaxOps, r \in RefetchReplies : RefetchAnswer(i, c, r)

Spec == Init /\ [][Next]_vars

\* a server that derives the subscribe token from the query and its
\* variables answers every refetch of an instance with the same token
SameToken(i, reply) == reply \in Sids => sid[i] \in {NoSid, reply}

RefetchAnswerSameToken(i, c, reply) ==
    /\ SameToken(i, reply)
    /\ RefetchAnswer(i, c, reply)

NextStable ==
    \/ Calls
    \/ \E i \in Inst, c \in 1..MaxOps, r \in RefetchReplies : RefetchAnswerSameToken(i, c, r)

SpecStable == Init /\ [][NextStable]_vars

\* the transport specification follows fewer calls than MaxOps: the pending
\* batch and the state of the link multiply the states of every log
Capped == LogLen' <= MaxTransportOps

\* the client with its transport: raw messages go through onNotify, and the
\* transport closes and opens
NextTransport ==
    \/ \E i \in Inst : Subscribe(i) /\ Capped
    \/ \E i \in Inst : CallRefetch(i) /\ Capped
    \/ \E i \in Inst : Pause(i) /\ Capped
    \/ \E i \in Inst : Resume(i) /\ Capped
    \/ \E i \in Inst : Unsubscribe(i) /\ Capped
    \/ \E i \in Inst, c \in 1..MaxOps, a \in DirectiveAcks : DirectiveAnswer(i, c, a)
    \/ \E i \in Inst, c \in 1..MaxOps, r \in RefetchReplies : RefetchAnswer(i, c, r)
    \/ \E m \in Messages : Receive(m)
    \/ Fire /\ Capped
    \/ Open /\ Capped
    \/ Close

SpecTransport == Init /\ [][NextTransport]_vars

\* the execution engine answers a round-trip that waits for it
Answers ==
    \/ \E i \in Inst, c \in 1..MaxOps, a \in DirectiveAcks : DirectiveAnswer(i, c, a)
    \/ \E i \in Inst, c \in 1..MaxOps, r \in RefetchReplies : RefetchAnswer(i, c, r)

\* a round-trip waits for the engine: Answers is enabled
Waiting == \E i \in Inst : \E c \in 1..Len(next[i]) : next[i][c].st = "busy"

\* WF_vars(Answers), with ENABLED <<Answers>>_vars written as the state
\* predicate it equals: the engine does not leave a round-trip unanswered
\* for ever
AnswersFair == []<>(~Waiting) \/ []<><<Answers>>_vars

\* the calls, the notifications and the events of the transport, with an
\* engine that answers every round-trip in the end
NextLive ==
    \/ \E i \in Inst : Subscribe(i) /\ Capped
    \/ \E i \in Inst : CallRefetch(i) /\ Capped
    \/ \E i \in Inst : Pause(i) /\ Capped
    \/ \E i \in Inst : Resume(i) /\ Capped
    \/ \E i \in Inst : Unsubscribe(i) /\ Capped
    \/ \E b \in SUBSET Sids : Notify(b) /\ Capped
    \/ Open /\ Capped
    \/ Close
    \/ Answers

SpecLive == Init /\ [][NextLive]_vars /\ AnswersFair

\* a caller with one subscription, followed over more calls
Solo == {1}

NextSolo ==
    \/ \E i \in Solo : Subscribe(i)
    \/ \E i \in Solo : CallRefetch(i)
    \/ \E i \in Solo : Pause(i)
    \/ \E i \in Solo : Resume(i)
    \/ \E i \in Solo : Unsubscribe(i)
    \/ \E i \in Solo, c \in 1..MaxOps, a \in DirectiveAcks : DirectiveAnswer(i, c, a)
    \/ \E i \in Solo, c \in 1..MaxOps, r \in RefetchReplies : RefetchAnswer(i, c, r)
    \/ Open

SpecSolo == Init /\ [][NextSolo]_vars

\* Query.__processResults on its own: any result, under any options
InitProcess ==
    /\ state = [i \in Inst |-> "subscribed"]
    /\ sid = [i \in Inst |-> NoSid]
    /\ refetching = [i \in Inst |-> FALSE]
    /\ next = [i \in Inst |-> <<Resolved>>]
    /\ subscriptions = [s \in {} |-> {}]
    /\ ops = [i \in Inst |-> <<>>]
    /\ opens = 0
    /\ link = "open"
    /\ pending = NoSids
    /\ timer = FALSE
    /\ dispatched = <<>>
    /\ result \in Results
    /\ opts \in Options
    /\ outcome = <<>>

Process ==
    /\ outcome = <<>>
    /\ outcome' = <<ProcessResults(result, opts)>>
    /\ UNCHANGED <<state, sid, refetching, next, subscriptions, ops, opens,
                   link, pending, timer, dispatched, result, opts>>

SpecProcess == InitProcess /\ [][Process]_vars

\* Query.then(onResult) on its own: any request, under any options
Then(req) ==
    /\ outcome = <<>>
    /\ outcome' = <<QueryThen(req, result, opts)>>
    /\ UNCHANGED <<state, sid, refetching, next, subscriptions, ops, opens,
                   link, pending, timer, dispatched, result, opts>>

NextThen == \E req \in Requests : Then(req)

SpecThen == InitProcess /\ [][NextThen]_vars

(* ---------------------------- vocabulary ------------------------------ *)

Pending(op) == op.st \in {"queued", "inflight"}

Rejected(op) == op.st \in {"invalid", "typeerror", "poisoned"}

\* the call sent a query or a directive to the execution engine
RoundTrip(op) == op.st \in {"inflight", "done", "typeerror"}

NonForced(op) == op.kind = "refetch" /\ ~op.force

Directive(op) == op.kind \in {"pause", "resume", "unsubscribe"}

AllSettled(i) == \A k \in DOMAIN ops[i] : ~Pending(ops[i][k])

\* number of chains of instance i whose head waits for the engine
Executing(i) == Cardinality({c \in 1..Len(next[i]) : next[i][c].st = "busy"})

\* the calls logged for instance i by the step
NewCalls(i) == DOMAIN ops'[i] \ DOMAIN ops[i]

\* the calls of instance i whose callback the step has run
Started(i) ==
    {k \in DOMAIN ops'[i] :
        /\ k \in DOMAIN ops[i] => ops[i][k].st = "queued"
        /\ ops'[i][k].st \in {"inflight", "dropped", "invalid"}}

\* the step answers no round-trip
NoAnswer ==
    \A i \in Inst : \A k \in DOMAIN ops[i] :
        ops[i][k].st = "inflight" => ops'[i][k].st = "inflight"

TypeOK ==
    /\ state \in [Inst -> {"subscribed", "paused", "unsubscribed"}]
    /\ sid \in [Inst -> Sids \cup {NoSid}]
    /\ refetching \in [Inst -> BOOLEAN]
    /\ DOMAIN subscriptions \subseteq Sids
    /\ \A s \in DOMAIN subscriptions : subscriptions[s] \subseteq Inst
    /\ opens \in 0..MaxOpens
    /\ link \in {"open", "closed"}
    /\ pending \subseteq Sids
    /\ timer \in BOOLEAN
    /\ dispatched \in {<<>>} \cup {<<b>> : b \in SUBSET Sids}
    /\ result \in Results
    /\ opts \in Options
    /\ \A i \in Inst :
        /\ Len(next[i]) >= 1
        /\ \A c \in 1..Len(next[i]) :
            /\ next[i][c].st \in {"resolved", "rejected", "busy"}
            /\ next[i][c].st = "busy" <=> next[i][c].q # <<>>
            /\ c < Len(next[i]) => next[i][c].st = "busy"
            /\ \A n \in 1..Len(next[i][c].q) :
                ops[i][next[i][c].q[n]].st = (IF n = 1 THEN "inflight" ELSE "queued")

(* ------------------------------ claims -------------------------------- *)

\* the state machine of section 4.1, one call at a time
SpecStep(s, kind) ==
    CASE kind = "pause"       -> IF s = "subscribed" THEN "paused" ELSE s
      [] kind = "resume"      -> IF s = "paused" THEN "subscribed" ELSE s
      [] kind = "unsubscribe" -> "unsubscribed"
      [] OTHER                -> s

RECURSIVE SpecRun(_, _)
SpecRun(i, k) ==
    IF k = 0 THEN "subscribed" ELSE SpecStep(SpecRun(i, k - 1), ops[i][k].kind)

\* C1: when the calls made on an instance after its first fetch (which
\* delivered the subscribe token) are pause(), resume() and unsubscribe()
\* only, every directive was acknowledged without error and all promises have
\* settled, the state of the instance is the state the state machine of the
\* specification reaches by applying the calls one at a time in issue order.
C1_FifoFinalState ==
    \A i \in Inst :
        ( /\ Created(i)
          /\ AllSettled(i)
          /\ \A k \in DOMAIN ops[i] : ops[i][k].ack # "error"
          /\ \A k \in DOMAIN ops[i] : k > 1 => Directive(ops[i][k]) )
        => state[i] = SpecRun(i, Len(ops[i]))

\* C2: at most one lifecycle operation of an instance is started and not
\* yet settled, whatever the interleaving (reset() included).
C2_AtMostOneExecuting == \A i \in Inst : Executing(i) <= 1

\* C3: a pause(), resume() or unsubscribe() rejected for its state fails its
\* own promise only: the call issued next on the instance is not rejected
\* because of it (its callback runs when it reaches the front of the chain).
C3_InvalidStateIsLocal ==
    \A i \in Inst : \A k \in DOMAIN ops[i] : \A m \in DOMAIN ops[i] :
        ( /\ k < m
          /\ Directive(ops[i][k]) /\ ops[i][k].st = "invalid"
          /\ \A n \in (k + 1)..(m - 1) : ops[i][n].st = "coalesced" )
        => ops[i][m].st # "poisoned"

\* the keys of the registry that hold instance i
KeysOf(S, i) == {s \in DOMAIN S : i \in S[s]}

\* C4: a transport "open" event makes every instance that is in the registry
\* at that moment in state subscribed or paused start exactly one forced
\* round-trip.
C4_OpenForcesOneRefetch ==
    [][opens' # opens =>
        \A i \in Inst :
            (KeysOf(subscriptions, i) # {} /\ state[i] \in {"subscribed", "paused"})
            => Cardinality({k \in NewCalls(i) :
                    /\ ops'[i][k].kind = "refetch" /\ ops'[i][k].force
                    /\ ops'[i][k].st = "inflight"}) = 1]_vars

\* C4 (amended): a transport "open" event calls reset() and refetch(true) on
\* an instance once for every registry key that holds it; each of these
\* forced refetches starts a round-trip when the instance is subscribed, and
\* is rejected by the state check, without a round-trip, when it is not.
C4_OpenRefetchesSubscribed ==
    [][opens' # opens =>
        \A i \in Inst :
            /\ Cardinality(NewCalls(i)) = Cardinality(KeysOf(subscriptions, i))
            /\ \A k \in NewCalls(i) :
                /\ ops'[i][k].kind = "refetch" /\ ops'[i][k].force
                /\ ops'[i][k].st =
                        (IF state[i] = "subscribed" THEN "inflight" ELSE "invalid")]_vars

\* a paused instance of the registry went through an "open" event
C4_Witness ==
    /\ opens > 0
    /\ \E i \in Inst :
        /\ state[i] = "paused"
        /\ KeysOf(subscriptions, i) # {}
        /\ \E k \in DOMAIN ops[i] : ops[i][k].force /\ ops[i][k].st = "invalid"

\* C5: a call of the caller (or a dispatched refetch) that was queued and not
\* started when reset() was called is discarded: it never sends a query or a
\* directive.
C5_ResetDiscardsQueued ==
    \A i \in Inst : \A k \in DOMAIN ops[i] :
        (ops[i][k].stale /\ ~ops[i][k].force) => ~RoundTrip(ops[i][k])

\* C6: a non-forced refetch whose callback runs while the instance is paused
\* is dropped silently: it is not rejected and starts no round-trip.
C6_PausedRefetchDropped ==
    [][\A i \in Inst : \A k \in Started(i) :
            (NonForced(ops'[i][k]) /\ state'[i] = "paused")
            => ops'[i][k].st = "dropped"]_vars

\* the call chained right after call k of instance i, if there is one
Follower(i, k) ==
    {next[i][c].q[n + 1] : <<c, n>> \in
        {x \in (1..Len(next[i])) \X (1..Len(ops[i])) :
            /\ x[2] < Len(next[i][x[1]].q)
            /\ next[i][x[1]].q[x[2]] = k}}

\* C6 (amended): a non-forced refetch whose callback runs while the instance
\* is paused starts no round-trip; it is dropped silently, and the call
\* chained after it still runs, when the instance is not stored under its sid,
\* and it is rejected by the state check when the instance is stored.
C6_PausedRefetchDroppedIfNotStored ==
    [][\A i \in Inst : \A k \in Started(i) :
            (NonForced(ops'[i][k]) /\ state'[i] = "paused")
            => /\ ops'[i][k].st =
                    (IF sid'[i] \in DOMAIN subscriptions' /\ i \in subscriptions'[sid'[i]]
                     THEN "invalid" ELSE "dropped")
               /\ ops'[i][k].st = "dropped"
                    => \A m \in Follower(i, k) : ops'[i][m].st # "poisoned"]_vars

\* a refetch of a paused instance was dropped and the resume() after it ran
C6_Witness ==
    \E i \in Inst : \E k \in DOMAIN ops[i] :
        /\ state[i] = "paused"
        /\ \A n \in DOMAIN ops[i] : ops[i][n].kind # "unsubscribe"
        /\ NonForced(ops[i][k]) /\ ops[i][k].st = "dropped"
        /\ k + 1 \in DOMAIN ops[i]
        /\ ops[i][k + 1].kind = "resume" /\ ops[i][k + 1].st = "inflight"

\* C7 (the half of "exactly one round-trip" that fails): a refetch() called
\* while an earlier non-forced refetch of the instance is in its round-trip
\* starts no round-trip of its own.
C7_NoSecondRoundTrip ==
    [][\A i \in Inst : \A m \in NewCalls(i) :
            ( /\ NonForced(ops'[i][m])
              /\ \E k \in DOMAIN ops[i] : NonForced(ops[i][k]) /\ ops[i][k].st = "inflight" )
            => ops'[i][m].st # "inflight"]_vars

\* C8: a sid is a key of the registry exactly when some instance whose sid it
\* is is subscribed or paused.
C8_RegistryIffLive ==
    \A s \in Sids :
        s \in DOMAIN subscriptions
        <=> \E i \in Inst : sid[i] = s /\ Created(i) /\ state[i] \in {"subscribed", "paused"}

\* the unsubscribe() calls made on instance i before call k
EarlierUnsubscribes(i, k) ==
    {n \in 1..(k - 1) : ops[i][n].kind = "unsubscribe"}

\* C9: when the first two unsubscribe() calls made on an instance whose first
\* fetch registered it have settled, the first one has resolved (and removed
\* the instance), and the second one was rejected by its state check.
C9_UnsubscribeTwice ==
    \A i \in Inst : \A k \in DOMAIN ops[i] : \A m \in DOMAIN ops[i] :
        ( /\ ops[i][1].ack = "ok"
          /\ ops[i][k].kind = "unsubscribe" /\ EarlierUnsubscribes(i, k) = {}
          /\ ops[i][m].kind = "unsubscribe" /\ EarlierUnsubscribes(i, m) = {k}
          /\ ~Pending(ops[i][k]) /\ ~Pending(ops[i][m]) )
        => /\ ops[i][k].st = "done"
           /\ ops[i][m].st = "invalid"

\* C10: an instance that is unsubscribed stays unsubscribed.
C10_UnsubscribedIsTerminal ==
    [][\A i \in Inst : state[i] = "unsubscribed" => state'[i] = "unsubscribed"]_vars

\* C11: a pause() whose callback finds the instance not subscribed, and a
\* resume() whose callback finds it not paused, is rejected and sends no
\* directive; the task in which it runs (unless the task is itself an answer
\* of the engine) leaves state, sid and the registry as they were.
C11_InvalidDirectiveChangesNothing ==
    [][\A i \in Inst : \A k \in Started(i) :
            ( \/ ops'[i][k].kind = "pause" /\ state'[i] # "subscribed"
              \/ ops'[i][k].kind = "resume" /\ state'[i] # "paused" )
            => /\ ops'[i][k].st = "invalid"
               /\ NoAnswer => /\ state' = state
                              /\ sid' = sid
                              /\ subscriptions' = subscriptions]_vars

\* a pause() was rejected on a paused, registered instance
C11_Witness ==
    \E i \in Inst : \E k \in DOMAIN ops[i] :
        /\ ops[i][k].kind = "pause" /\ ops[i][k].st = "invalid"
        /\ ops[i][k].ack = "-"
        /\ state[i] = "paused" /\ Stored(World, i)

\* C12: a directive whose round-trip ends in an error (a failure of the
\* engine or a result carrying errors) changes neither the state of the
\* instance nor the registry.
C12_DirectiveErrorChangesNothing ==
    [][\A i \in Inst : \A k \in DOMAIN ops[i] :
            ( /\ Directive(ops[i][k])
              /\ ops[i][k].st = "inflight"
              /\ ops'[i][k].ack = "error" )
            => /\ state'[i] = state[i]
               /\ subscriptions' = subscriptions]_vars

\* C13: an unsubscribe() acknowledged while the instance is subscribed or
\* paused and not stored under its sid resolves, ends in state unsubscribed
\* and leaves the registry as it was.
C13_UnsubscribeUnregistered ==
    [][\A i \in Inst : \A k \in DOMAIN ops[i] :
            ( /\ ops[i][k].kind = "unsubscribe"
              /\ ops[i][k].st = "inflight" /\ ops'[i][k].st # "inflight"
              /\ state[i] \in {"subscribed", "paused"}
              /\ ~Stored(World, i) )
            => /\ ops'[i][k].st = "done"
               /\ state'[i] = "unsubscribed"
               /\ subscriptions' = subscriptions]_vars

\* C14: the dispatch of a batch calls refetch() on an instance once for
\* every sid of the batch the instance is registered under, and so not at all
\* on an instance registered under none of them: such an instance keeps its
\* log, its chains and its flag; the dispatch changes no state, no sid and not
\* the registry, whatever sids without instances the batch holds.
C14_UnregisteredSidsDispatchNothing ==
    [][dispatched' # <<>> =>
        /\ subscriptions' = subscriptions
        /\ state' = state
        /\ sid' = sid
        /\ \A i \in Inst :
            /\ Cardinality(NewCalls(i)) = Cardinality(KeysOf(subscriptions, i) \cap pending)
            /\ KeysOf(subscriptions, i) \cap pending = {}
               => /\ ops'[i] = ops[i]
                  /\ next'[i] = next[i]
                  /\ refetching'[i] = refetching[i]]_vars

\* the batch just dispatched held a sid without instances beside the sid of
\* a registered instance: that instance was refetched, and the other instance,
\* whose first fetch is still in flight, was left alone
C14_Witness ==
    /\ dispatched # <<>>
    /\ dispatched[1] \ DOMAIN subscriptions # {}
    /\ \E i \in Inst : \E j \in Inst :
        /\ sid[i] \in dispatched[1] /\ Stored(World, i)
        /\ Len(ops[i]) = 2 /\ NonForced(ops[i][2]) /\ ops[i][2].st = "inflight"
        /\ KeysOf(subscriptions, j) = {}
        /\ Len(ops[j]) = 1 /\ ops[j][1].st = "inflight"

C17_OneDispatchPerWindow ==
    [][/\ \A m \in Messages :
            ( /\ m.type = "GRAPHQL-NOTIFY"
              /\ m.list /\ \A n \in DOMAIN m.data : m.data[n] \in Sids
              /\ Receive(m) )
            => /\ {m.data[n] : n \in DOMAIN m.data} \subseteq pending'
               /\ timer'
       /\ (timer /\ timer') => (pending \subseteq pending' /\ dispatched' = <<>>)
       /\ (timer /\ ~timer') => (dispatched' = <<pending>> /\ pending' = NoSids)
       /\ dispatched' # <<>> => (timer /\ ~timer')
       /\ ~timer' => pending' = NoSids]_vars

\* a batch of both sids has been dispatched in one go: the instance
\* registered under one of them was refetched, nothing is pending and no
\* timer runs
C17_Witness ==
    /\ dispatched = <<Sids>>
    /\ pending = NoSids /\ ~timer
    /\ \E i \in Inst :
        /\ Stored(World, i)
        /\ Len(ops[i]) = 2 /\ NonForced(ops[i][2]) /\ ops[i][2].st = "inflight"
        /\ \A j \in Inst \ {i} : ~Created(j)

C19_EmptyResultSuppressed ==
    ( /\ outcome # <<>>
      /\ result.data = Null /\ result.errors = <<>>
      /\ opts.dataRequire = NoRequire )
    => ~outcome[1].called

\* C20: with errorsEmit and without errorsPass, a result with at least one
\* error has its first error emitted once, comes out without errors, and is
\* not handed to the callback when it comes out without data; without
\* errorsEmit nothing is emitted.
C20_EmittedThenStripped ==
    outcome # <<>>
    => /\ (opts.errorsEmit /\ ~opts.errorsPass /\ result.errors # <<>>)
          => /\ outcome[1].emitted = <<ErrorText(result.errors[1])>>
             /\ ~outcome[1].delivered.hasErrors
             /\ outcome[1].delivered.errors = <<>>
             /\ outcome[1].delivered.data = Null => ~outcome[1].called
       /\ ~opts.errorsEmit => outcome[1].emitted = <<>>

\* a result with errors only was processed with errorsEmit and without
\* errorsPass: its first error was emitted and the callback was not called
C20_Witness ==
    /\ outcome # <<>>
    /\ opts.errorsEmit /\ ~opts.errorsPass
    /\ result.data = Null /\ Len(result.errors) = 2
    /\ outcome[1].emitted = <<ErrorText(result.errors[1])>>
    /\ ~outcome[1].called

\* C21: with errorsPass and dataStrict both set, the callback is either
\* called with a result whose data is not null, or not called at all.
C21_DataOrNothing ==
    ( /\ outcome # <<>>
      /\ opts.errorsPass /\ opts.dataStrict
      /\ outcome[1].called )
    => outcome[1].delivered.data # Null

\* C22: when the round-trip of a refetch is answered with a result that
\* carries a subscribe token, then at the end of that task the sid of the
\* instance is the token, the registry holds the instance under the token,
\* and the result callback was called once, with the data of the caller
\* without the _Subscription field.
C22_TokenCaptured ==
    [][\A i \in Inst : \A c \in 1..Len(next[i]) : \A t \in Sids :
            RefetchAnswer(i, c, t)
            => /\ sid'[i] = t
               /\ t \in DOMAIN subscriptions'
               /\ i \in subscriptions'[t]
               /\ LET k == Head(next[i][c].q) IN
                  /\ Len(ops'[i][k].cb) = 1
                  /\ ops'[i][k].cb[1].data # Tokened
                  /\ ops'[i][k].cb[1].data = "{ x: 1 }"]_vars

\* a second instance was answered with the token another instance is
\* registered under: both are in the registry under it, and the callback of
\* the second got the data
C22_Witness ==
    \E i \in Inst : \E j \in Inst \ {i} : \E t \in Sids :
        /\ sid[i] = t /\ sid[j] = t
        /\ t \in DOMAIN subscriptions /\ subscriptions[t] = {i, j}
        /\ ops[j][1].st = "done" /\ ops[j][1].ack = "ok"
        /\ ops[j][1].cb = <<[data |-> "{ x: 1 }", hasErrors |-> FALSE, errors |-> <<>>]>>

\* C23: every key of the registry holds at least one instance (so the
\* removal of the last instance of a key has removed the key).
C23_NoEmptyEntry ==
    \A s \in DOMAIN subscriptions : subscriptions[s] # {}

\* the unsubscribe() of the only instance under a sid was acknowledged: the
\* key is gone, while the other instance is still registered under its own
C23_Witness ==
    \E i \in Inst : \E j \in Inst \ {i} : \E k \in DOMAIN ops[i] :
        /\ ops[i][k].kind = "unsubscribe" /\ ops[i][k].st = "done"
        /\ state[i] = "unsubscribed"
        /\ sid[i] \in Sids /\ sid[i] \notin DOMAIN subscriptions
        /\ sid[j] # sid[i] /\ Stored(World, j)

\* C24: an instance leaves the entry of a sid only when its own
\* unsubscribe() is acknowledged, so the unsubscribe() of one of two instances
\* registered under the same sid leaves the other one registered; and the
\* dispatch of a batch calls refetch() on every instance registered under a
\* sid of the batch.
C24_OtherStaysRegistered ==
    [][/\ \A s \in DOMAIN subscriptions : \A j \in subscriptions[s] :
            (s \notin DOMAIN subscriptions' \/ j \notin subscriptions'[s])
            => /\ sid[j] = s
               /\ \E k \in DOMAIN ops[j] :
                    /\ ops[j][k].kind = "unsubscribe"
                    /\ ops[j][k].st = "inflight" /\ ops'[j][k].st = "done"
       /\ \A b \in SUBSET Sids :
            Notify(b)
            => \A s \in b \cap DOMAIN subscriptions : \A j \in subscriptions[s] :
                    /\ NewCalls(j) # {}
                    /\ \A k \in NewCalls(j) : NonForced(ops'[j][k])]_vars

\* of two instances registered under the same sid one was unsubscribed; the
\* other one is still registered under the sid and a refetch() called on it
\* after that has started its round-trip
C24_Witness ==
    \E i \in Inst : \E j \in Inst \ {i} :
        /\ sid[i] \in Sids /\ sid[j] = sid[i]
        /\ Len(ops[i]) = 2
        /\ ops[i][2].kind = "unsubscribe" /\ ops[i][2].st = "done"
        /\ state[i] = "unsubscribed"
        /\ sid[i] \in DOMAIN subscriptions /\ subscriptions[sid[i]] = {j}
        /\ Len(ops[j]) = 2
        /\ NonForced(ops[j][2]) /\ ops[j][2].st = "inflight"

\* C25: the promise of then(onResult) is not rejected when the query does
\* not compile or the round-trip fails: the failure is treated as
\* __processResults treats the result { data: null, errors: [ error ] }, which
\* decides what is emitted and what onResult is called with.
C25_FailureIsProcessed ==
    (outcome # <<>> /\ outcome[1].req \in {"compile error", "failure"})
    => /\ outcome[1].promise = "resolved"
       /\ LET out == ProcessResults(FailureResult, opts) IN
          /\ outcome[1].called = out.called
          /\ outcome[1].delivered = out.delivered
          /\ outcome[1].emitted = out.emitted

\* C26: a non-forced refetch that was called before an unsubscribe() and
\* whose turn comes when that unsubscribe() has completed is dropped: it sends no
\* query, calls no callback, registers nothing and is not rejected.
C26_LateRefetchDropped ==
    [][\A i \in Inst : \A k \in DOMAIN ops[i] :
            ( /\ NonForced(ops[i][k])
              /\ ops[i][k].st = "queued" /\ ops'[i][k].st # "queued"
              /\ \E m \in DOMAIN ops[i] :
                    /\ k < m
                    /\ ops[i][m].kind = "unsubscribe"
                    /\ ops'[i][m].st = "done" )
            => ops'[i][k].st = "dropped"]_vars

\* C27: the state of an instance changes only when one of its directives
\* completes: from subscribed to paused with a pause(), from paused to
\* subscribed with a resume(), from subscribed or paused to unsubscribed with
\* an unsubscribe(); no other step changes it.
C27_LegalTransitions ==
    [][\A i \in Inst :
            state'[i] # state[i]
            => \E k \in DOMAIN ops[i] :
                /\ ops[i][k].st = "inflight" /\ ops'[i][k].st = "done"
                /\ \/ /\ ops[i][k].kind = "pause"
                      /\ state[i] = "subscribed" /\ state'[i] = "paused"
                   \/ /\ ops[i][k].kind = "resume"
                      /\ state[i] = "paused" /\ state'[i] = "subscribed"
                   \/ /\ ops[i][k].kind = "unsubscribe"
                      /\ state[i] \in {"subscribed", "paused"}
                      /\ state'[i] = "unsubscribed"]_vars

\* C28: every call a transport "open" event logs is a forced refetch that
\* was chained to a fresh chain: it is not coalesced, it does not wait behind
\* a call that was pending (its callback has run by the end of the task), the
\* current chain of its instance holds no call from before the event, and a
\* round-trip that was in flight is in flight still.
C28_ForcedOnFreshChain ==
    [][opens' # opens =>
        \A i \in Inst :
            /\ KeysOf(subscriptions, i) # {} => NewCalls(i) # {}
            /\ \A k \in NewCalls(i) :
                /\ ops'[i][k].kind = "refetch" /\ ops'[i][k].force
                /\ ops'[i][k].st \in {"inflight", "invalid"}
            /\ NewCalls(i) # {}
               => /\ LET q == next'[i][Len(next'[i])].q
                     IN  \A n \in DOMAIN q : q[n] \in NewCalls(i)
                  /\ \A k \in DOMAIN ops[i] : ops'[i][k].st = ops[i][k].st]_vars

\* an "open" event came while a non-forced refetch of a registered instance
\* was in its round-trip: the forced refetch is in its round-trip beside it
C28_Witness ==
    /\ opens > 0
    /\ \E i \in Inst : \E k \in DOMAIN ops[i] : \E m \in DOMAIN ops[i] :
        /\ k < m
        /\ NonForced(ops[i][k]) /\ ops[i][k].st = "inflight"
        /\ ops[i][m].kind = "refetch" /\ ops[i][m].force /\ ops[i][m].st = "inflight"
        /\ Len(next[i]) = 2
        /\ next[i][2].q = <<m>>

\* C29: when dataRequire is set and the data fails the validation, the
\* processing goes on with the validation error appended behind the errors of
\* the result: the first error of that list is emitted if errorsEmit is set,
\* the data is null if dataStrict is set, and the callback gets the list if
\* errorsPass is set, else no errors, and is not called when it would get
\* neither data nor errors.
C29_ValidationErrorsAppended ==
    ( /\ outcome # <<>>
      /\ opts.dataRequire # NoRequire
      /\ ~Validate(result.data, opts.dataRequire) )
    => LET errs == result.errors \o <<ValidationError>>
           data == IF opts.dataStrict THEN Null ELSE result.data
       IN  /\ outcome[1].emitted =
                (IF opts.errorsEmit THEN <<ErrorText(errs[1])>> ELSE <<>>)
           /\ outcome[1].delivered.data = data
           /\ outcome[1].delivered.errors = (IF opts.errorsPass THEN errs ELSE <<>>)
           /\ outcome[1].delivered.hasErrors = opts.errorsPass
           /\ outcome[1].called = (data # Null \/ opts.errorsPass)

\* { data: { x: 1 }, errors: [ e ] } failed the validation under dataStrict
\* without errorsPass: e was emitted, and the callback was not called
C29_Witness ==
    /\ outcome # <<>>
    /\ opts.dataRequire = "{ y: string }"
    /\ opts.errorsEmit /\ opts.dataStrict /\ ~opts.errorsPass
    /\ result.data = "{ x: 1 }" /\ Len(result.errors) = 1
    /\ outcome[1].emitted = <<ErrorText(result.errors[1])>>
    /\ ~outcome[1].called

\* C30: a call waits for calls of its own instance only: a call whose
\* callback has not run is chained behind a round-trip of its own instance
\* that is in flight, whatever the other instances wait for.
C30_WaitsForOwnInstanceOnly ==
    \A j \in Inst : \A m \in DOMAIN ops[j] :
        ops[j][m].st = "queued"
        => \E c \in 1..Len(next[j]) :
            /\ next[j][c].st = "busy"
            /\ ops[j][Head(next[j][c].q)].st = "inflight"
            /\ \E n \in 2..Len(next[j][c].q) : next[j][c].q[n] = m

\* the first fetch of the first instance is still without an answer, and
\* the second instance, created after it, has completed its first fetch and
\* a pause()
C30_Witness ==
    \E i \in Inst : \E j \in Inst :
        /\ i < j
        /\ Len(ops[i]) = 1 /\ ops[i][1].st = "inflight"
        /\ Len(ops[j]) = 2
        /\ ops[j][1].st = "done" /\ ops[j][1].ack = "ok"
        /\ ops[j][2].kind = "pause" /\ ops[j][2].st = "done" /\ ops[j][2].ack = "ok"
        /\ state[j] = "paused"

\* C31: the dispatch of a batch calls refetch() exactly once, not forced, on
\* every instance registered under a sid of the batch, and starts at most one
\* round-trip per instance.
C31_OnceForEachInstance ==
    [][\A b \in SUBSET Sids :
            Notify(b)
            => \A i \in Inst :
                /\ KeysOf(subscriptions, i) \cap b # {}
                   => /\ Cardinality(NewCalls(i)) = 1
                      /\ \A k \in NewCalls(i) : NonForced(ops'[i][k])
                /\ Cardinality({k \in NewCalls(i) : RoundTrip(ops'[i][k])}) <= 1]_vars

\* C33: an instance stored in the registry under a key has that key as its
\* sid and is subscribed or paused.
C33_RegistryMatchesInstances ==
    \A s \in DOMAIN subscriptions : \A i \in subscriptions[s] :
        /\ sid[i] = s
        /\ state[i] \in {"subscribed", "paused"}

\* C32: a message of the transport that is no notification, or whose
\* payload is no list or holds an element that is no string, is ignored: the
\* pending batch, the timer, the instances, their chains and the registry stay
\* as they were, and nothing is dispatched.
C32_OtherMessagesIgnored ==
    [][\A m \in Messages :
            ( /\ Receive(m)
              /\ \/ m.type # "GRAPHQL-NOTIFY"
                 \/ ~m.list
                 \/ \E n \in DOMAIN m.data : m.data[n] \notin Sids )
            => /\ UNCHANGED <<pending, timer>>
               /\ UNCHANGED <<state, sid, refetching, next, subscriptions, ops>>
               /\ dispatched' = <<>>]_vars

\* a batch without the sid of the registered instance is pending: a message
\* that is ignored here leaves the instance out of the dispatch to come
C32_Witness ==
    /\ timer /\ pending = {"s2"}
    /\ link = "open"
    /\ \E i \in Inst :
        /\ sid[i] = "s1" /\ Stored(World, i)
        /\ AllSettled(i)

\* C34: when every call made on an instance has settled, its refetching flag
\* is false.
C34_FlagFalseWhenSettled ==
    \A i \in Inst : AllSettled(i) => ~refetching[i]

\* C35: when a batch is dispatched while an instance registered under one
\* of its sids is subscribed (and no call made on it was ever rejected), the
\* instance has, at the end of the dispatch, a refetch that the dispatch has
\* started or that is still queued, and so a round-trip that starts at or
\* after the dispatch; this also when a refetch of the instance is in its
\* round-trip at the dispatch.
C35_DispatchLeavesRefetchToCome ==
    [][\A b \in SUBSET Sids :
            Notify(b)
            => \A i \in Inst :
                ( /\ state[i] = "subscribed"
                  /\ KeysOf(subscriptions, i) \cap b # {}
                  /\ \A k \in DOMAIN ops[i] : ~Rejected(ops[i][k]) )
                => \E k \in DOMAIN ops'[i] :
                    /\ ops'[i][k].kind = "refetch"
                    /\ \/ ops'[i][k].st = "queued"
                       \/ k \in NewCalls(i) /\ ops'[i][k].st = "inflight"]_vars

\* C36: the result callback of an instance is not called while the instance
\* is unsubscribed.
C36_NoCallbackWhenUnsubscribed ==
    [][\A i \in Inst : \A k \in DOMAIN ops[i] :
            (ops[i][k].cb = <<>> /\ ops'[i][k].cb # <<>>)
            => state[i] # "unsubscribed"]_vars

\* C37: a refetch, forced or not, starts its round-trip only when the
\* instance is subscribed: a refetch whose callback runs while the instance
\* is paused or unsubscribed sends no query.
C37_RoundTripOnlyWhenSubscribed ==
    [][\A i \in Inst : \A k \in Started(i) :
            ops'[i][k].kind = "refetch"
            => /\ ops'[i][k].st = "inflight" => state'[i] = "subscribed"
               /\ state'[i] # "subscribed" => ops'[i][k].st \in {"dropped", "invalid"}]_vars

\* a forced refetch and a refetch of the caller found the instance paused:
\* neither sent a query
C37_Witness ==
    \E i \in Inst : \E k \in DOMAIN ops[i] : \E m \in DOMAIN ops[i] :
        /\ state[i] = "paused"
        /\ ops[i][k].kind = "refetch" /\ ops[i][k].force
        /\ ops[i][k].st = "invalid" /\ ops[i][k].ack = "-"
        /\ NonForced(ops[i][m]) /\ m > 1
        /\ ops[i][m].st \in {"dropped", "invalid"} /\ ops[i][m].ack = "-"

\* C38: with an engine that answers every query and every directive in the
\* end, every call made on an instance settles: again and again no call of
\* any instance is queued or in flight.
C38_EveryCallSettles ==
    []<>(\A i \in Inst : AllSettled(i))

\* an "open" event came while a pause() was waiting for its
\* acknowledgement: the pause() and the forced refetch have both settled
C38_Witness ==
    /\ opens > 0
    /\ \E i \in Inst :
        /\ AllSettled(i)
        /\ Len(ops[i]) = 3
        /\ ops[i][2].kind = "pause" /\ ops[i][2].st = "done"
        /\ ops[i][3].force /\ ops[i][3].st = "done"
        /\ state[i] = "paused"

\* C39: the processing replaces the data of a result by null only when
\* dataStrict is set and the result carries at least one error, of the engine
\* or of the validation: a result with data and an empty list of errors is
\* delivered with its data.
C39_NulledOnlyWithErrors ==
    ( /\ outcome # <<>>
      /\ outcome[1].delivered.data # result.data )
    => /\ opts.dataStrict
       /\ DataRequire(result, opts).errors # <<>>

====
